---- MODULE Spec2Model ----
(***************************************************************************)
(* State-machine model of esphome-music-leds (MusicLeds: constructor,      *)
(* destructor, setup, ShowFrame) as written in                             *)
(* src/custom_components/esphome-music-leds/esphome_music_leds.cpp.        *)
(*                                                                         *)
(* ShowFrame blocks inside i2s_read, so it is modelled as the sequence of  *)
(* its statements: ShowFrame (entry + shift loop, then blocked in the      *)
(* read), I2sRead (the read returns), Normalize, T2Mel, Dispatch and       *)
(* OutputCopy.  One thread of control runs the instances (the host's       *)
(* loop), so at most one frame is in progress at a time.                   *)
(***************************************************************************)
EXTENDS Integers, Sequences, FiniteSets, TLC

(* ------------------------------ bounds -------------------------------- *)
\* Model-scale values of the header's compile-time sizes.
BUFFER_SIZE == 2
MaxHistory == 2
N_MEL_BIN == 2
\* Largest n_pixels given at construction; light buffers go one beyond it.
MaxPixels == 2
\* Frames shown where blocks are drawn from the wider sample set.
NormFrames == 1
\* Frames shown per instance (over all its lifetimes).
MaxFrames == 3

(* ----------------------------- constants ------------------------------ *)
Instances == {1, 2}

MODE_SCROLL == "MODE_SCROLL"
MODE_ENERGY == "MODE_ENERGY"
MODE_SPECTRUM == "MODE_SPECTRUM"
\* A PLAYMODE value that is none of the three enumerators.
MODE_OTHER == "MODE_OTHER"
ValidModes == {MODE_SCROLL, MODE_ENERGY, MODE_SPECTRUM}
AllModes == ValidModes \cup {MODE_OTHER}

Int16Min == -32768
Int16Max == 32767
\* Divisor of the normalization, i2s_buf[i] / 32768.0
NormDivisor == 32768

(* ------------------------------ values -------------------------------- *)
Abs(x) == IF x < 0 THEN -x ELSE x

RECURSIVE GCD(_, _)
GCD(a, b) == IF b = 0 THEN a ELSE GCD(b, a % b)

\* A float is kept as the exact reduced fraction it holds.
Float(n, d) == LET g == GCD(Abs(n), d) IN [n |-> n \div g, d |-> d \div g]
FloatZero == [n |-> 0, d |-> 1]
\* What an uninitialized float may hold besides zero.
FloatGarbage == [n |-> 1, d |-> 3]

\* Variant: the divisor is the largest int16 instead of 2^15.
NormalizeSampleBy32767(r) == Float(r, 32767)

\* i2s_buf[i] / 32768.0 : exact, an int16 over 2^15 fits a float's mantissa.
NormalizeSample(r) == Float(r, NormDivisor)

\* CRGB values the visualizations may produce / uninitialized memory may hold.
Black == [r |-> 0, g |-> 0, b |-> 0]
Orange == [r |-> 255, g |-> 64, b |-> 0]
Palette == {Black, Orange}
\* Content of the caller's light buffer before the frame writes it.
StaleColor == [r |-> 9, g |-> 9, b |-> 9, w |-> 255]

\* Color c; c.r = p.r; c.g = p.g; c.b = p.b; c.w = 0;
ToColor(p) == [r |-> p.r, g |-> p.g, b |-> p.b, w |-> 0]

ZeroBuf == [k \in 0 .. BUFFER_SIZE - 1 |-> 0]

VARIABLES
    depth,        \* N_ROLLING_HISTORY of the build
    alive,        \* instance constructed and not destroyed
    n_pixels_,    \* MusicLeds::n_pixels_
    pin_config,   \* MusicLeds::pin_config
    y_data,       \* MusicLeds::y_data, the rolling sample buffer
    physic_leds,  \* MusicLeds::physic_leds, the pixel frame
    mel_data,     \* static float mel_data[N_MEL_BIN] of ShowFrame
    bytes_read,   \* static unsigned int bytes_read of ShowFrame
    ii,           \* static int ii of ShowFrame, the sample counter
    i2s,          \* the capture peripheral MLED_I2S_NUM
    pc,           \* position of the frame in progress
    cur,          \* instance whose ShowFrame is in progress (0: none)
    CurrentMode,  \* ShowFrame's argument
    p_it,         \* ShowFrame's argument, the addressable-light buffer
    i2s_buf,      \* ShowFrame's local capture block
    calls,        \* history: ShowFrame invocations per instance
    reads,        \* history: capture reads returned per instance
    copies,       \* history: output passes finished per instance
    windows,      \* history: normalized windows captured since construction
    trace,        \* history: steps of the current/last frame, in order
    written,      \* history: light indices assigned by the last output pass
    prev_leds,    \* history: physic_leds at frame entry
    vis_in,       \* history: mel vector handed to the visualization
    setup_log,    \* history: peripheral operations of the last setup
    actor,        \* history: the last operation invoked, and on which instance
    aqi_pm,       \* argument of calcAQIpm25 / calcAQIpm10, in tenths of ug/m3
    aqi_fn,       \* which of the two functions was called last
    aqi_out       \* its return value

vars == <<depth, alive, n_pixels_, pin_config, y_data, physic_leds, mel_data,
          bytes_read, ii, i2s, pc, cur, CurrentMode, p_it, i2s_buf, calls,
          reads, copies, windows, trace, written, prev_leds, vis_in,
          setup_log, actor, aqi_pm, aqi_fn, aqi_out>>

aqiVars == <<aqi_pm, aqi_fn, aqi_out>>
musicVars == <<depth, alive, n_pixels_, pin_config, y_data, physic_leds,
               mel_data, bytes_read, ii, i2s, pc, cur, CurrentMode, p_it,
               i2s_buf, calls, reads, copies, windows, trace, written,
               prev_leds, vis_in, setup_log, actor>>

frameVars == <<pc, cur, CurrentMode, p_it, i2s_buf, trace, written,
               prev_leds, vis_in>>
histVars == <<calls, reads, copies, windows>>

\* The arguments, locals and per-frame history of a frame that has returned
\* are gone once another operation runs.
ClearFrame ==
    /\ cur' = 0
    /\ CurrentMode' = MODE_OTHER
    /\ p_it' = <<>>
    /\ i2s_buf' = ZeroBuf
    /\ trace' = <<>>
    /\ written' = <<>>
    /\ prev_leds' = <<>>
    /\ vis_in' = <<>>
    /\ UNCHANGED pc

(* ------------------------- capture peripheral ------------------------- *)
\* Driver operations on the one port MLED_I2S_NUM (external driver; only
\* what the calls do to the port's state is kept).
I2sDriverInstall(p) == [p EXCEPT !.installed = TRUE]
I2sSetPin(p, pins) == IF p.installed THEN [p EXCEPT !.pins = pins] ELSE p
I2sStop(p) == IF p.installed THEN [p EXCEPT !.running = FALSE] ELSE p
I2sStart(p) == IF p.installed THEN [p EXCEPT !.running = TRUE] ELSE p

ApplyOp(p, op, pins) ==
    CASE op = "install" -> I2sDriverInstall(p)
      [] op = "set_pin" -> I2sSetPin(p, pins)
      [] op = "stop" -> I2sStop(p)
      [] op = "start" -> I2sStart(p)

RECURSIVE ApplyOps(_, _, _)
ApplyOps(p, ops, pins) ==
    IF ops = <<>> THEN p
    ELSE ApplyOps(ApplyOp(p, Head(ops), pins), Tail(ops), pins)

\* Variant: the port is started before it is stopped.
SetupOpsStartThenStop == <<"install", "set_pin", "start", "stop">>

\* The driver calls of setup(), in program order.
SetupOps == <<"install", "set_pin", "stop", "start">>

(* --------------------------- rolling buffer --------------------------- *)
BufLen(h) == BUFFER_SIZE * h

\* The member array y_data as the object's storage provides it.
YDataAlloc(h, fill) == [k \in 0 .. BufLen(h) - 1 |-> fill]

\* Variant: the copy is one float short (sizeof(float)*(BUFFER_SIZE-1)).
MemcpyWindowOneShort(y, i) ==
    [k \in DOMAIN y |->
        IF k >= i * BUFFER_SIZE /\ k < (i + 1) * BUFFER_SIZE - 1
        THEN y[k + BUFFER_SIZE] ELSE y[k]]

\* memcpy(y_data + i*BUFFER_SIZE, y_data + (i+1)*BUFFER_SIZE, BUFFER_SIZE floats)
MemcpyWindow(y, i) ==
    [k \in DOMAIN y |->
        IF k >= i * BUFFER_SIZE /\ k < (i + 1) * BUFFER_SIZE
        THEN y[k + BUFFER_SIZE] ELSE y[k]]

\* Variant: the loop runs once more (i < N_ROLLING_HISTORY), its last copy
\* taking its source from beyond the buffer.
RECURSIVE ShiftLoopOneMore(_, _, _)
ShiftLoopOneMore(y, i, h) ==
    IF i < h
    THEN ShiftLoopOneMore(
             [k \in DOMAIN y |->
                 IF k >= i * BUFFER_SIZE /\ k < (i + 1) * BUFFER_SIZE
                 THEN (IF k + BUFFER_SIZE \in DOMAIN y
                       THEN y[k + BUFFER_SIZE] ELSE FloatGarbage)
                 ELSE y[k]],
             i + 1, h)
    ELSE y

\* Variant: the loop stops one window early (i < N_ROLLING_HISTORY - 2).
RECURSIVE ShiftLoopShort(_, _, _)
ShiftLoopShort(y, i, h) ==
    IF i < h - 2 THEN ShiftLoopShort(MemcpyWindow(y, i), i + 1, h) ELSE y

\* for (int i = 0; i < N_ROLLING_HISTORY - 1; i++) memcpy(...)
RECURSIVE ShiftLoop(_, _, _)
ShiftLoop(y, i, h) ==
    IF i < h - 1 THEN ShiftLoop(MemcpyWindow(y, i), i + 1, h) ELSE y

\* Variant: the new samples land in the oldest slot (y_data[i] = ...).
RECURSIVE NormalizeLoopOldestSlot(_, _, _, _)
NormalizeLoopOldestSlot(y, buf, i, h) ==
    IF i < BUFFER_SIZE
    THEN NormalizeLoopOldestSlot(
             [y EXCEPT ![i] = NormalizeSample(buf[i])], buf, i + 1, h)
    ELSE y

\* for (i < BUFFER_SIZE) y_data[BUFFER_SIZE*(N_ROLLING_HISTORY-1) + i] = i2s_buf[i]/32768.0
RECURSIVE NormalizeLoop(_, _, _, _)
NormalizeLoop(y, buf, i, h) ==
    IF i < BUFFER_SIZE
    THEN NormalizeLoop(
             [y EXCEPT ![BUFFER_SIZE * (h - 1) + i] = NormalizeSample(buf[i])],
             buf, i + 1, h)
    ELSE y

(* ------------------------- external collaborators --------------------- *)
\* Magnitude of a sample in units of 2^-15.
Magnitude(v) == (Abs(v.n) * NormDivisor) \div v.d

RECURSIVE SumBin(_, _, _)
SumBin(y, b, k) ==
    IF k < 0 THEN 0
    ELSE (IF k % N_MEL_BIN = b THEN Magnitude(y[k]) ELSE 0) + SumBin(y, b, k - 1)

\* FFT::t2mel: the whole buffer reduced to N_MEL_BIN energies.
T2MelOf(y, h) == [b \in 0 .. N_MEL_BIN - 1 |-> SumBin(y, b, BufLen(h) - 1)]

\* VisualEffect::visualize_*: every pixel frame of n entries it may write.
VisualizeOutputs(n) == [0 .. n - 1 -> Palette]
VisName(m) ==
    CASE m = MODE_SCROLL -> "visualize_scroll"
      [] m = MODE_ENERGY -> "visualize_energy"
      [] m = MODE_SPECTRUM -> "visualize_spectrum"
VisNames == {"visualize_scroll", "visualize_energy", "visualize_spectrum"}

(* ------------------------------- Init --------------------------------- *)
NoPort == [installed |-> FALSE, running |-> FALSE, pins |-> 0]

InitMusic(depths) ==
    /\ depth \in depths
    /\ alive = [i \in Instances |-> FALSE]
    /\ n_pixels_ = [i \in Instances |-> 0]
    /\ pin_config = [i \in Instances |-> 0]
    /\ y_data = [i \in Instances |-> <<>>]
    /\ physic_leds = [i \in Instances |-> <<>>]
    /\ mel_data = [b \in 0 .. N_MEL_BIN - 1 |-> 0]
    /\ bytes_read = 0
    /\ ii = 0
    /\ \E r \in BOOLEAN : i2s = [NoPort EXCEPT !.running = r]
    /\ pc = "idle"
    /\ cur = 0
    /\ CurrentMode = MODE_OTHER
    /\ p_it = <<>>
    /\ i2s_buf = ZeroBuf
    /\ calls = [i \in Instances |-> 0]
    /\ reads = [i \in Instances |-> 0]
    /\ copies = [i \in Instances |-> 0]
    /\ windows = [i \in Instances |-> <<>>]
    /\ trace = <<>>
    /\ written = <<>>
    /\ prev_leds = <<>>
    /\ vis_in = <<>>
    /\ setup_log = <<>>
    /\ actor = [inst |-> 0, op |-> "none"]

\* No AQI computation is part of the strip's runs.
InitWith(depths) ==
    /\ InitMusic(depths)
    /\ aqi_pm = [nan |-> FALSE, tenths |-> 0]
    /\ aqi_fn = "none"
    /\ aqi_out = 0

(* --------------------------- lifecycle -------------------------------- *)
\* MusicLeds::MusicLeds(n_pixels, min_volume_threshold, ws pin, data pin).
\* new CRGB[n] and the member array start with whatever memory holds.
Construct(i, n, pins) ==
    /\ pc = "idle"
    /\ UNCHANGED aqiVars
    /\ ~alive[i]
    /\ \E fill \in {FloatZero, FloatGarbage}, leds \in [0 .. n - 1 -> Palette] :
          /\ y_data' = [y_data EXCEPT ![i] = YDataAlloc(depth, fill)]
          /\ physic_leds' = [physic_leds EXCEPT ![i] = leds]
    /\ n_pixels_' = [n_pixels_ EXCEPT ![i] = n]
    /\ pin_config' = [pin_config EXCEPT ![i] = pins]
    /\ alive' = [alive EXCEPT ![i] = TRUE]
    /\ windows' = [windows EXCEPT ![i] = <<>>]
    /\ actor' = [inst |-> i, op |-> "construct"]
    /\ UNCHANGED <<depth, mel_data, bytes_read, ii, i2s, setup_log, calls,
                   reads, copies>>
    /\ ClearFrame

\* MusicLeds::~MusicLeds(): i2s_stop, then the owned buffers are released.
Destroy(i) ==
    /\ pc = "idle"
    /\ UNCHANGED aqiVars
    /\ alive[i]
    /\ i2s' = I2sStop(i2s)
    /\ alive' = [alive EXCEPT ![i] = FALSE]
    /\ y_data' = [y_data EXCEPT ![i] = <<>>]
    /\ physic_leds' = [physic_leds EXCEPT ![i] = <<>>]
    /\ actor' = [inst |-> i, op |-> "destroy"]
    /\ UNCHANGED <<depth, n_pixels_, pin_config, mel_data, bytes_read, ii,
                   setup_log>>
    /\ ClearFrame
    /\ UNCHANGED histVars

\* MusicLeds::setup()
Setup(i) ==
    /\ pc = "idle"
    /\ UNCHANGED aqiVars
    /\ alive[i]
    /\ i2s' = ApplyOps(i2s, SetupOps, pin_config[i])
    /\ setup_log' = SetupOps
    /\ actor' = [inst |-> i, op |-> "setup"]
    /\ UNCHANGED <<depth, alive, n_pixels_, pin_config, y_data, physic_leds,
                   mel_data, bytes_read, ii>>
    /\ ClearFrame
    /\ UNCHANGED histVars

(* ----------------------------- ShowFrame ------------------------------ *)
\* Variant: the read is given no time to wait and returns at once with
\* nothing delivered, so the frame goes on without a captured block.
ShowFrameNoWait(i, m, sz) ==
    /\ pc = "idle"
    /\ UNCHANGED aqiVars
    /\ alive[i]
    /\ calls[i] < MaxFrames
    /\ cur' = i
    /\ CurrentMode' = m
    /\ p_it' = [k \in 0 .. sz - 1 |-> StaleColor]
    /\ i2s_buf' = ZeroBuf
    /\ y_data' = [y_data EXCEPT ![i] = ShiftLoop(y_data[i], 0, depth)]
    /\ pc' = "normalize"
    /\ calls' = [calls EXCEPT ![i] = @ + 1]
    /\ trace' = <<"shift", "i2s_read">>
    /\ written' = <<>>
    /\ prev_leds' = physic_leds[i]
    /\ vis_in' = <<>>
    /\ actor' = [inst |-> i, op |-> "ShowFrame"]
    /\ UNCHANGED <<depth, alive, n_pixels_, pin_config, physic_leds, mel_data,
                   bytes_read, ii, i2s, reads, copies, windows, setup_log>>

\* Variant: i2s_buf is not cleared on entry (a static, or no initializer),
\* so it still holds what the previous frame captured.
ShowFrameKeepsBlock(i, m, sz) ==
    /\ pc = "idle"
    /\ UNCHANGED aqiVars
    /\ alive[i]
    /\ calls[i] < MaxFrames
    /\ cur' = i
    /\ CurrentMode' = m
    /\ p_it' = [k \in 0 .. sz - 1 |-> StaleColor]
    /\ y_data' = [y_data EXCEPT ![i] = ShiftLoop(y_data[i], 0, depth)]
    /\ pc' = "read"
    /\ calls' = [calls EXCEPT ![i] = @ + 1]
    /\ trace' = <<"shift">>
    /\ written' = <<>>
    /\ prev_leds' = physic_leds[i]
    /\ vis_in' = <<>>
    /\ actor' = [inst |-> i, op |-> "ShowFrame"]
    /\ UNCHANGED <<depth, alive, n_pixels_, pin_config, physic_leds, mel_data,
                   bytes_read, ii, i2s, reads, copies, windows, setup_log,
                   i2s_buf>>

\* Entry of ShowFrame(CurrentMode, p_it): locals, the shift loop, and the
\* call of i2s_read, in which the frame then waits.
ShowFrame(i, m, sz) ==
    /\ pc = "idle"
    /\ UNCHANGED aqiVars
    /\ alive[i]
    /\ calls[i] < MaxFrames
    /\ cur' = i
    /\ CurrentMode' = m
    /\ p_it' = [k \in 0 .. sz - 1 |-> StaleColor]
    /\ i2s_buf' = ZeroBuf
    /\ y_data' = [y_data EXCEPT ![i] = ShiftLoop(y_data[i], 0, depth)]
    /\ pc' = "read"
    /\ calls' = [calls EXCEPT ![i] = @ + 1]
    /\ trace' = <<"shift">>
    /\ written' = <<>>
    /\ prev_leds' = physic_leds[i]
    /\ vis_in' = <<>>
    /\ actor' = [inst |-> i, op |-> "ShowFrame"]
    /\ UNCHANGED <<depth, alive, n_pixels_, pin_config, physic_leds, mel_data,
                   bytes_read, ii, i2s, reads, copies, windows, setup_log>>

\* i2s_read(MLED_I2S_NUM, i2s_buf, BUFFER_SIZE * 2, &bytes_read, portMAX_DELAY)
\* returns: the started port delivered n samples of data.
I2sRead(n, data) ==
    /\ pc = "read"
    /\ UNCHANGED aqiVars
    /\ i2s.installed /\ i2s.running
    /\ i2s_buf' = [k \in 0 .. BUFFER_SIZE - 1 |->
                      IF k < n THEN data[k] ELSE i2s_buf[k]]
    /\ bytes_read' = 2 * n
    /\ reads' = [reads EXCEPT ![cur] = @ + 1]
    /\ windows' = [windows EXCEPT ![cur] =
                      Append(@, [k \in 0 .. BUFFER_SIZE - 1 |->
                                    NormalizeSample(i2s_buf'[k])])]
    /\ trace' = Append(trace, "i2s_read")
    /\ pc' = "normalize"
    /\ UNCHANGED <<depth, alive, n_pixels_, pin_config, y_data, physic_leds,
                   mel_data, ii, i2s, cur, CurrentMode, p_it, calls, copies,
                   written, prev_leds, vis_in, setup_log, actor>>

\* The normalization loop, lines 58-65.
Normalize ==
    /\ pc = "normalize"
    /\ UNCHANGED aqiVars
    /\ y_data' = [y_data EXCEPT ![cur] = NormalizeLoop(@, i2s_buf, 0, depth)]
    /\ ii' = ii + BUFFER_SIZE
    /\ trace' = Append(trace, "normalize")
    /\ pc' = "t2mel"
    /\ UNCHANGED <<depth, alive, n_pixels_, pin_config, physic_leds, mel_data,
                   bytes_read, i2s, cur, CurrentMode, p_it, i2s_buf, written,
                   prev_leds, vis_in, setup_log, actor>>
    /\ UNCHANGED histVars

\* Variant: the transform is skipped and mel_data keeps its old content.
T2MelStale ==
    /\ pc = "t2mel"
    /\ UNCHANGED aqiVars
    /\ trace' = Append(trace, "t2mel")
    /\ pc' = "dispatch"
    /\ UNCHANGED <<depth, alive, n_pixels_, pin_config, y_data, physic_leds,
                   mel_data, bytes_read, ii, i2s, cur, CurrentMode, p_it,
                   i2s_buf, written, prev_leds, vis_in, setup_log, actor>>
    /\ UNCHANGED histVars

\* fft->t2mel(y_data, mel_data)
T2Mel ==
    /\ pc = "t2mel"
    /\ UNCHANGED aqiVars
    /\ mel_data' = T2MelOf(y_data[cur], depth)
    /\ trace' = Append(trace, "t2mel")
    /\ pc' = "dispatch"
    /\ UNCHANGED <<depth, alive, n_pixels_, pin_config, y_data, physic_leds,
                   bytes_read, ii, i2s, cur, CurrentMode, p_it, i2s_buf,
                   written, prev_leds, vis_in, setup_log, actor>>
    /\ UNCHANGED histVars

\* Variant: the pixel frame is replaced by a newly sized array each frame.
VisualizeReallocates(name) ==
    /\ \E out \in [0 .. n_pixels_[cur] -> Palette] :
          physic_leds' = [physic_leds EXCEPT ![cur] = out]
    /\ vis_in' = mel_data
    /\ trace' = trace \o <<"switch", name>>

\* effect->visualize_xxx(mel_data, physic_leds)
Visualize(name) ==
    /\ \E out \in VisualizeOutputs(n_pixels_[cur]) :
          physic_leds' = [physic_leds EXCEPT ![cur] = out]
    /\ vis_in' = mel_data
    /\ trace' = trace \o <<"switch", name>>

\* Variant: a default branch that falls back to the scroll visualization.
DispatchDefaultScroll ==
    /\ pc = "dispatch"
    /\ UNCHANGED aqiVars
    /\ CASE CurrentMode = MODE_SCROLL -> Visualize("visualize_scroll")
         [] CurrentMode = MODE_ENERGY -> Visualize("visualize_energy")
         [] CurrentMode = MODE_SPECTRUM -> Visualize("visualize_spectrum")
         [] OTHER -> Visualize("visualize_scroll")
    /\ pc' = "copy"
    /\ UNCHANGED <<depth, alive, n_pixels_, pin_config, y_data, mel_data,
                   bytes_read, ii, i2s, cur, CurrentMode, p_it, i2s_buf,
                   written, prev_leds, setup_log, actor>>
    /\ UNCHANGED histVars

\* switch (CurrentMode) with its three cases and no default.
Dispatch ==
    /\ pc = "dispatch"
    /\ UNCHANGED aqiVars
    /\ CASE CurrentMode = MODE_SCROLL -> Visualize("visualize_scroll")
         [] CurrentMode = MODE_ENERGY -> Visualize("visualize_energy")
         [] CurrentMode = MODE_SPECTRUM -> Visualize("visualize_spectrum")
         [] OTHER -> /\ trace' = Append(trace, "switch")
                     /\ UNCHANGED <<physic_leds, vis_in>>
    /\ pc' = "copy"
    /\ UNCHANGED <<depth, alive, n_pixels_, pin_config, y_data, mel_data,
                   bytes_read, ii, i2s, cur, CurrentMode, p_it, i2s_buf,
                   written, prev_leds, setup_log, actor>>
    /\ UNCHANGED histVars

\* Variant: the loop stops one slot early (i < p_it->size() - 1).
OutputCopyStopsEarly ==
    /\ pc = "copy"
    /\ UNCHANGED aqiVars
    /\ LET sz == Cardinality(DOMAIN p_it)
           n == n_pixels_[cur]
       IN /\ \E beyond \in [n .. sz - 2 -> Palette] :
                p_it' = [k \in 0 .. sz - 1 |->
                            IF k = sz - 1 THEN p_it[k]
                            ELSE ToColor(IF k < n THEN physic_leds[cur][k]
                                         ELSE beyond[k])]
          /\ written' = [k \in 1 .. sz - 1 |-> k - 1]
    /\ copies' = [copies EXCEPT ![cur] = @ + 1]
    /\ trace' = Append(trace, "copy")
    /\ pc' = "idle"
    /\ UNCHANGED <<depth, alive, n_pixels_, pin_config, y_data, physic_leds,
                   mel_data, bytes_read, ii, i2s, cur, CurrentMode, i2s_buf,
                   calls, reads, windows, prev_leds, vis_in, setup_log, actor>>

\* for (int i = 0; i < p_it->size(); i++) (*p_it)[i] = Color of physic_leds[i].
\* physic_leds has n_pixels_ entries: a read at i >= n_pixels_ is outside the
\* allocation and yields whatever the adjacent memory holds.
OutputCopy ==
    /\ pc = "copy"
    /\ UNCHANGED aqiVars
    /\ LET sz == Cardinality(DOMAIN p_it)
           n == n_pixels_[cur]
       IN /\ \E beyond \in [n .. sz - 1 -> Palette] :
                p_it' = [k \in 0 .. sz - 1 |->
                            ToColor(IF k < n THEN physic_leds[cur][k]
                                    ELSE beyond[k])]
          /\ written' = [k \in 1 .. sz |-> k - 1]
    /\ copies' = [copies EXCEPT ![cur] = @ + 1]
    /\ trace' = Append(trace, "copy")
    /\ pc' = "idle"
    /\ UNCHANGED <<depth, alive, n_pixels_, pin_config, y_data, physic_leds,
                   mel_data, bytes_read, ii, i2s, cur, CurrentMode, i2s_buf,
                   calls, reads, windows, prev_leds, vis_in, setup_log, actor>>

(* --------------------------- specifications --------------------------- *)
FullBlocks(samples) == [0 .. BUFFER_SIZE - 1 -> samples]

\* One strip: every mode, light buffers shorter than, as long as and longer
\* than the pixel frame.
Init == InitWith({MaxHistory})

Next ==
    \/ \E n \in 1 .. MaxPixels : Construct(1, n, 1)
    \/ Setup(1)
    \/ Destroy(1)
    \/ \E m \in AllModes, sz \in 0 .. MaxPixels + 1 : ShowFrame(1, m, sz)
    \/ \E data \in FullBlocks({Int16Max}) : I2sRead(BUFFER_SIZE, data)
    \/ Normalize
    \/ T2Mel
    \/ Dispatch
    \/ OutputCopy

Spec == Init /\ [][Next]_vars

\* The same strip where the code that runs is scheduled: once the read has
\* returned, each remaining statement of the frame is eventually executed.
\* Nothing obliges the host to call an operation or the port to deliver.
SpecFair ==
    /\ Spec
    /\ WF_vars(Normalize)
    /\ WF_vars(T2Mel)
    /\ WF_vars(Dispatch)
    /\ WF_vars(OutputCopy)

\* One strip, every history depth up to MaxHistory, blocks drawn from the
\* two extreme int16 values, one mode and a light buffer of n_pixels slots.
InitBuf == InitWith(1 .. MaxHistory)

NextBuf ==
    \/ Construct(1, 1, 1)
    \/ Setup(1)
    \/ Destroy(1)
    \/ ShowFrame(1, MODE_ENERGY, 1)
    \/ \E data \in FullBlocks({Int16Min, Int16Max}) : I2sRead(BUFFER_SIZE, data)
    \/ Normalize
    \/ T2Mel
    \/ Dispatch
    \/ OutputCopy

SpecBuf == InitBuf /\ [][NextBuf]_vars

\* One strip whose blocks hold the extreme, the smallest non-zero and the
\* zero int16 values.
InitNorm == InitWith({MaxHistory})

NextNorm ==
    \/ Construct(1, 1, 1)
    \/ Setup(1)
    \/ Destroy(1)
    \/ (calls[1] < NormFrames /\ ShowFrame(1, MODE_ENERGY, 1))
    \/ \E data \in FullBlocks({Int16Min, -1, 0, 1, Int16Max}) :
          I2sRead(BUFFER_SIZE, data)
    \/ Normalize
    \/ T2Mel
    \/ Dispatch
    \/ OutputCopy

SpecNorm == InitNorm /\ [][NextNorm]_vars

\* One strip whose reads may return short: 0 .. BUFFER_SIZE samples of a
\* non-zero value are delivered.  The frame's statements are scheduled as in
\* SpecFair.
InitShort == InitWith({MaxHistory})

NextShort ==
    \/ Construct(1, 1, 1)
    \/ Setup(1)
    \/ Destroy(1)
    \/ ShowFrame(1, MODE_ENERGY, 1)
    \/ \E n \in 0 .. BUFFER_SIZE, data \in FullBlocks({Int16Max}) :
          I2sRead(n, data)
    \/ Normalize
    \/ T2Mel
    \/ Dispatch
    \/ OutputCopy

SpecShort ==
    /\ InitShort /\ [][NextShort]_vars
    /\ WF_vars(Normalize)
    /\ WF_vars(T2Mel)
    /\ WF_vars(Dispatch)
    /\ WF_vars(OutputCopy)

\* Two strips run by the one host loop, each with its own pins.
InitTwo == InitWith({MaxHistory})

NextTwo ==
    \/ \E i \in Instances : Construct(i, 1, i)
    \/ \E i \in Instances : Setup(i)
    \/ \E i \in Instances : Destroy(i)
    \/ \E i \in Instances, m \in {MODE_ENERGY, MODE_OTHER} : ShowFrame(i, m, 1)
    \/ \E data \in FullBlocks({Int16Max}) : I2sRead(BUFFER_SIZE, data)
    \/ Normalize
    \/ T2Mel
    \/ Dispatch
    \/ OutputCopy

SpecTwo == InitTwo /\ [][NextTwo]_vars

(* ------------------------- frame-level history ------------------------ *)
\* A frame has returned and nothing else has run since: cur, CurrentMode,
\* p_it, i2s_buf, trace, written, prev_leds and vis_in are that frame's.
FrameDone == pc = "idle" /\ trace # <<>>

LightSize == Cardinality(DOMAIN p_it)
IsVis(e) == e \in VisNames
NotVis(e) == e \notin VisNames
FrameOrder == <<"shift", "i2s_read", "normalize", "t2mel", "switch", "copy">>
IsPrefix(s, t) == Len(s) <= Len(t) /\ \A j \in 1 .. Len(s) : s[j] = t[j]
InFrameAfterRead == pc \in {"normalize", "t2mel", "dispatch", "copy"}

(* ------------------------------- C3 ----------------------------------- *)
\* C3: every ShowFrame runs shift, capture read, normalize, transform, mode
\* dispatch and output copy in that order, with exactly one capture read and
\* exactly one pass over all slots of the light buffer; a frame's capture
\* read only happens when every earlier frame of the instance has finished
\* its output copy.
C3_OneReadOnePassInOrder ==
    /\ trace # <<>> => IsPrefix(SelectSeq(trace, NotVis), FrameOrder)
    /\ FrameDone =>
          /\ SelectSeq(trace, NotVis) = FrameOrder
          /\ written = [k \in 1 .. LightSize |-> k - 1]
          /\ \A k \in DOMAIN p_it : p_it[k] # StaleColor
    /\ \A i \in Instances :
          /\ copies[i] <= reads[i] /\ reads[i] <= calls[i]
          /\ calls[i] <= copies[i] + 1
    /\ pc = "read" => reads[cur] = copies[cur] /\ calls[cur] = copies[cur] + 1
    /\ pc = "idle" => \A i \in Instances :
                         reads[i] = calls[i] /\ copies[i] = calls[i]

C3_Witness ==
    /\ FrameDone
    /\ calls[cur] >= 2
    /\ LightSize >= 2

(* ------------------------------- C4 ----------------------------------- *)
\* C4: in every frame, whatever the mode and the supplied light buffer, the
\* output pass assigns exactly the indices 0 .. n_pixels-1.
C4_WritesExactlyPixelCount ==
    FrameDone => written = [k \in 1 .. n_pixels_[cur] |-> k - 1]

(* ------------------------------- C5 ----------------------------------- *)
\* C5: every light slot i assigned in a frame holds r, g, b of the pixel
\* frame entry physic_leds[i] and w = 0.
C5_CopiesPixelFrameEntries ==
    FrameDone =>
        \A j \in 1 .. Len(written) :
            LET i == written[j]
            IN /\ i \in DOMAIN physic_leds[cur]
               /\ p_it[i] = [r |-> physic_leds[cur][i].r,
                             g |-> physic_leds[cur][i].g,
                             b |-> physic_leds[cur][i].b,
                             w |-> 0]

(* ------------------------------- C6 ----------------------------------- *)
\* C6: a frame whose selector is none of the three modes calls no
\* visualization and leaves physic_leds as it was at frame entry.
C6_UnknownModeLeavesPixels ==
    (trace # <<>> /\ CurrentMode \notin ValidModes) =>
        /\ physic_leds[cur] = prev_leds
        /\ SelectSeq(trace, IsVis) = <<>>

C6_Witness ==
    /\ FrameDone
    /\ CurrentMode = MODE_OTHER
    /\ \E k \in DOMAIN prev_leds : prev_leds[k] = Orange
    /\ \E k \in DOMAIN prev_leds : prev_leds[k] = Black

(* ------------------------------- C7 ----------------------------------- *)
\* C7: a frame with a valid selector calls exactly one visualization, the
\* one of its selector, after the frame's t2mel and before the output copy,
\* and hands it the mel vector computed from this frame's buffer.
C7_OneMatchingVisualization ==
    (trace # <<>> /\ CurrentMode \in ValidModes) =>
        /\ pc \in {"read", "normalize", "t2mel", "dispatch"} =>
              SelectSeq(trace, IsVis) = <<>>
        /\ pc \in {"copy", "idle"} =>
              /\ SelectSeq(trace, IsVis) = <<VisName(CurrentMode)>>
              /\ \E j \in 1 .. Len(trace) :
                    /\ trace[j] = VisName(CurrentMode)
                    /\ \E k \in 1 .. j - 1 : trace[k] = "t2mel"
                    /\ \A k \in 1 .. j - 1 : trace[k] # "copy"
              /\ vis_in = T2MelOf(y_data[cur], depth)

C7_Witness ==
    /\ FrameDone
    /\ CurrentMode = MODE_SPECTRUM
    /\ calls[cur] >= 2
    /\ \E b \in DOMAIN vis_in : vis_in[b] > 0

(* ------------------------------- C8 ----------------------------------- *)
\* C8: setup issues install, set-pins, stop, start in that order, a stop
\* precedes the start, and when setup returns the port is installed and
\* started, whatever its state before and however often setup ran.
C8_SetupStopsThenStarts ==
    actor.op = "setup" =>
        /\ setup_log = <<"install", "set_pin", "stop", "start">>
        /\ \A j \in 1 .. Len(setup_log) :
              setup_log[j] = "start" =>
                  \E k \in 1 .. j - 1 : setup_log[k] = "stop"
        /\ i2s.installed /\ i2s.running
        /\ i2s.pins = pin_config[actor.inst]

\* A setup that ran after a frame had completed, i.e. not the first one.
C8_Witness ==
    /\ actor.op = "setup"
    /\ calls[actor.inst] >= 1
    /\ i2s.running

(* ------------------------------- C1 ----------------------------------- *)
\* C1: after every ShowFrame the rolling buffer holds exactly
\* N_ROLLING_HISTORY x BUFFER_SIZE samples and its last BUFFER_SIZE samples
\* are, element by element, the normalized samples of the block captured in
\* that frame.
C1_NewestWindowIsCapturedBlock ==
    /\ \A i \in Instances :
          alive[i] => DOMAIN y_data[i] = 0 .. depth * BUFFER_SIZE - 1
    /\ FrameDone =>
          \A k \in 0 .. BUFFER_SIZE - 1 :
              LET v == y_data[cur][(depth - 1) * BUFFER_SIZE + k]
              IN v.n * NormDivisor = i2s_buf[k] * v.d

C1_Witness ==
    /\ FrameDone
    /\ calls[cur] >= 2
    /\ depth >= 2
    /\ \E k \in DOMAIN i2s_buf : i2s_buf[k] = Int16Min
    /\ \E k \in DOMAIN i2s_buf : i2s_buf[k] = Int16Max

(* ------------------------------- C2 ----------------------------------- *)
\* C2: once an instance has shown at least N_ROLLING_HISTORY frames, its
\* buffer is the concatenation, oldest first, of the windows captured in its
\* last N_ROLLING_HISTORY frames.
C2_BufferIsLastWindowsInOrder ==
    (FrameDone /\ Len(windows[cur]) >= depth) =>
        \A w \in 0 .. depth - 1 : \A k \in 0 .. BUFFER_SIZE - 1 :
            y_data[cur][w * BUFFER_SIZE + k]
                = windows[cur][Len(windows[cur]) - depth + 1 + w][k]

\* One more frame than the depth, all captured windows different.
C2_Witness ==
    /\ FrameDone
    /\ depth >= 2
    /\ Len(windows[cur]) = depth + 1
    /\ \A a, b \in 1 .. Len(windows[cur]) :
          a # b => windows[cur][a] # windows[cur][b]

(* ------------------------------- C9 ----------------------------------- *)
\* What instance b's frames work on: its buffers, the mel-energy vector and
\* sample counter its ShowFrame uses, and the port it captures from.
InstanceState(b) == <<y_data[b], physic_leds[b], mel_data, ii, i2s>>

\* C9: an operation on one instance leaves every other live instance's
\* sample buffer, mel-energy vector, pixel frame, sample counter and capture
\* port unchanged.
C9_InstancesShareNothing ==
    [][\A b \in Instances :
          (alive[b] /\ actor'.inst # b) =>
              InstanceState(b)' = InstanceState(b)]_vars

(* ------------------------------- C10 ---------------------------------- *)
\* C10: a frame leaves the capture step only by the read returning a block,
\* so it never reaches the transform or the output copy without one; once
\* the read has returned, the frame performs transform, dispatch and output
\* copy and returns.
C10_BlocksOnlyInCapture ==
    /\ [](InFrameAfterRead => reads[cur] = calls[cur])
    /\ [](pc = "read" => reads[cur] = calls[cur] - 1)
    /\ [][pc = "read" =>
             \/ pc' = "read"
             \/ pc' = "normalize" /\ reads'[cur] = reads[cur] + 1]_vars
    /\ [](InFrameAfterRead =>
             <>(/\ pc = "idle"
                /\ SelectSeq(trace, NotVis) = FrameOrder
                /\ copies[cur] = reads[cur]))

\* A later frame waiting in the read of a port that is not running, after an
\* earlier frame of the instance was delivered a block and completed.
C10_Witness ==
    /\ pc = "read"
    /\ ~(i2s.installed /\ i2s.running)
    /\ copies[cur] >= 1

(* ------------------------------- C11 ---------------------------------- *)
\* C11: the shift moves every retained window down one slot unaltered: for
\* j in 1 .. N_ROLLING_HISTORY-1 the samples at [j*W, (j+1)*W) before the
\* frame are at [(j-1)*W, j*W) after the shift, and the rest of the frame
\* leaves them there.
C11_ShiftMovesWindowsDown ==
    [][/\ (pc = "idle" /\ pc' = "read") =>
              \A j \in 1 .. depth - 1 : \A k \in 0 .. BUFFER_SIZE - 1 :
                  y_data'[cur'][(j - 1) * BUFFER_SIZE + k]
                      = y_data[cur'][j * BUFFER_SIZE + k]
       /\ pc # "idle" =>
              \A q \in 0 .. (depth - 1) * BUFFER_SIZE - 1 :
                  y_data'[cur][q] = y_data[cur][q]]_vars

\* A frame has returned whose retained window holds two different samples
\* and differs from the window captured after it.
C11_Witness ==
    /\ FrameDone
    /\ depth >= 2
    /\ Len(windows[cur]) >= 2
    /\ LET old == windows[cur][Len(windows[cur]) - 1]
       IN /\ old # windows[cur][Len(windows[cur])]
          /\ old[0] # old[BUFFER_SIZE - 1]
          /\ \A k \in 0 .. BUFFER_SIZE - 1 :
                y_data[cur][(depth - 2) * BUFFER_SIZE + k] = old[k]

(* ------------------------------- C12 ---------------------------------- *)
\* C12: with a history depth of 1 the shift copies nothing, and after every
\* frame the whole buffer is the normalized window captured in that frame.
C12_DepthOneIsSingleWindow ==
    /\ [][(depth = 1 /\ pc = "idle" /\ pc' = "read") =>
              y_data'[cur'] = y_data[cur']]_vars
    /\ []((depth = 1 /\ FrameDone) =>
              /\ DOMAIN y_data[cur] = 0 .. BUFFER_SIZE - 1
              /\ \A k \in 0 .. BUFFER_SIZE - 1 :
                    y_data[cur][k].n * NormDivisor = i2s_buf[k] * y_data[cur][k].d)

C12_Witness ==
    /\ FrameDone
    /\ depth = 1
    /\ calls[cur] >= 2
    /\ i2s_buf[0] # i2s_buf[BUFFER_SIZE - 1]
    /\ windows[cur][Len(windows[cur])] # windows[cur][Len(windows[cur]) - 1]

(* ------------------------------- C13 ---------------------------------- *)
\* C13: once the frame has normalized, sample i of the captured block is at
\* position (N_ROLLING_HISTORY-1)*BUFFER_SIZE + i as r/32768, a value in
\* [-1, 1]; -32768 is stored as -1 and 32767 as 32767/32768.
C13_NormalizedIntoNewestSlot ==
    (pc \in {"t2mel", "dispatch", "copy"} \/ FrameDone) =>
        \A i \in 0 .. BUFFER_SIZE - 1 :
            LET r == i2s_buf[i]
                v == y_data[cur][(depth - 1) * BUFFER_SIZE + i]
            IN /\ v.d > 0
               /\ v.n * 32768 = r * v.d
               /\ -v.d <= v.n /\ v.n <= v.d
               /\ r = -32768 => v = [n |-> -1, d |-> 1]
               /\ r = 32767 => v = [n |-> 32767, d |-> 32768]

C13_Witness ==
    /\ FrameDone
    /\ i2s_buf[0] = Int16Min
    /\ i2s_buf[BUFFER_SIZE - 1] = Int16Max
    /\ y_data[cur][(depth - 1) * BUFFER_SIZE] = [n |-> -1, d |-> 1]
    /\ y_data[cur][depth * BUFFER_SIZE - 1] = [n |-> 32767, d |-> 32768]

(* ------------------------------- C14 ---------------------------------- *)
\* C14: every index the output loop uses to read physic_leds is below
\* n_pixels, the length physic_leds was allocated with.
C14_ReadsInsidePixelFrame ==
    FrameDone => \A j \in 1 .. Len(written) : written[j] < n_pixels_[cur]

(* ------------------------------- C15 ---------------------------------- *)
\* C15: when the read returns fewer than BUFFER_SIZE samples the frame still
\* completes, and the part of the newest window that was not delivered is 0.
C15_ShortReadTailIsZero ==
    /\ []((pc \in {"t2mel", "dispatch", "copy"} \/ FrameDone) =>
             \A k \in (bytes_read \div 2) .. BUFFER_SIZE - 1 :
                 y_data[cur][(depth - 1) * BUFFER_SIZE + k] = FloatZero)
    /\ []((pc = "normalize" /\ bytes_read < 2 * BUFFER_SIZE) => <>FrameDone)

\* A read that delivered nothing, in a frame after one that captured a full
\* non-zero window.
C15_Witness ==
    /\ FrameDone
    /\ bytes_read = 0
    /\ Len(windows[cur]) >= 2
    /\ \A k \in 0 .. BUFFER_SIZE - 1 :
          /\ windows[cur][Len(windows[cur]) - 1][k] = NormalizeSample(Int16Max)
          /\ y_data[cur][(depth - 1) * BUFFER_SIZE + k] = FloatZero

(* ------------------------------- C16 ---------------------------------- *)
\* C16: a live instance's sample buffer and pixel frame, and the mel-energy
\* vector, keep the lengths construction gave them; no step of a frame
\* changes them, and a buffer only appears by the instance's construction
\* and only disappears by its destruction.
BufferShape(i) == <<alive[i], DOMAIN y_data[i], DOMAIN physic_leds[i],
                    DOMAIN mel_data>>

C16_FramesKeepBuffers ==
    /\ [](/\ DOMAIN mel_data = 0 .. N_MEL_BIN - 1
          /\ \A i \in Instances :
                alive[i] =>
                    /\ DOMAIN y_data[i] = 0 .. depth * BUFFER_SIZE - 1
                    /\ DOMAIN physic_leds[i] = 0 .. n_pixels_[i] - 1)
    /\ [][(pc # "idle" \/ pc' # "idle") =>
              \A i \in Instances : BufferShape(i)' = BufferShape(i)]_vars
    /\ [][\A i \in Instances :
              BufferShape(i)' # BufferShape(i) =>
                  /\ actor'.inst = i
                  /\ \/ actor'.op = "construct" /\ ~alive[i] /\ alive'[i]
                     \/ actor'.op = "destroy" /\ alive[i] /\ ~alive'[i]]_vars

C16_Witness ==
    /\ FrameDone
    /\ calls[cur] >= 3
    /\ n_pixels_[cur] >= 2
    /\ CurrentMode \in ValidModes
    /\ physic_leds[cur] # prev_leds
    /\ DOMAIN physic_leds[cur] = DOMAIN prev_leds

(* --------------------------- air quality index --------------------------- *)
\* Concentrations are carried in tenths of a microgram per cubic metre, the
\* resolution of the tables, so that every table entry is an integer.

\* How far beyond the table range the inputs extend, in tenths.
AqiMargin == 20

BIN_PM25 == <<0, 0, 120, 354, 554, 1504, 2504, 3504, 5004>>
BIN_PM10 == <<0, 0, 540, 1540, 2540, 1350, 4240, 5040, 6040>>
BIN_AQI == <<0, 0, 50, 100, 150, 200, 300, 400, 500>>

\* B[k] with the source's indices 0 .. 8.
Bin(B, k) == B[k + 1]

Segments == 1 .. 7
Breakpoints == 0 .. 8

\* A float argument: a concentration in tenths, or not a number.
Tenths(t) == [nan |-> FALSE, tenths |-> t]
NaN == [nan |-> TRUE, tenths |-> 0]

AqiInputs ==
    {Tenths(t) : t \in -AqiMargin .. Bin(BIN_PM10, 8) + AqiMargin} \cup {NaN}

SegmentMatchesOpenTop(B, k, pm) ==
    /\ ~pm.nan
    /\ pm.tenths >= Bin(B, k)
    /\ (k = 7 \/ pm.tenths <= Bin(B, k + 1))

\* pm >= BIN[k] && pm <= BIN[k+1]; every comparison with a NaN is false.
SegmentMatches(B, k, pm) ==
    /\ ~pm.nan
    /\ pm.tenths >= Bin(B, k)
    /\ pm.tenths <= Bin(B, k + 1)

\* The branch of the else-if chain that is taken: the first segment that
\* matches, or 0 when none does.
TakenSegment(B, pm) ==
    IF \E k \in Segments : SegmentMatches(B, k, pm)
    THEN CHOOSE k \in Segments :
             /\ SegmentMatches(B, k, pm)
             /\ \A j \in Segments : j < k => ~SegmentMatches(B, j, pm)
    ELSE 0

\* ((AQI[k+1] - AQI[k]) / (BIN[k+1] - BIN[k])) * (pm - BIN[k]) + AQI[k] as the
\* exact fraction AQI[k] + SegNum / SegDen.
SegNum(B, k, t) == (Bin(BIN_AQI, k + 1) - Bin(BIN_AQI, k)) * (t - Bin(B, k))
SegDen(B, k) == Bin(B, k + 1) - Bin(B, k)

\* trunc() of the interpolated value.  The source computes it in single
\* precision: where the exact value is a whole number strictly inside a
\* segment, the rounded slope may leave the float just below it, and trunc()
\* then yields one less.  At both ends of a segment the float is exact.
SegmentValues(B, k, t) ==
    LET num == SegNum(B, k, t)
        den == SegDen(B, k)
        q   == Bin(BIN_AQI, k) + (num \div den)
    IN  IF num % den = 0 /\ t # Bin(B, k) /\ t # Bin(B, k + 1)
        THEN {q - 1, q}
        ELSE {q}

\* The values a call may return for the concentration t.
AqiValues(B, pm) ==
    LET k == TakenSegment(B, pm)
    IN  IF k = 0 THEN {0} ELSE SegmentValues(B, k, pm.tenths)

calcAQIpm25 ==
    /\ aqi_out' \in AqiValues(BIN_PM25, aqi_pm)
    /\ aqi_fn' = "calcAQIpm25"
    /\ UNCHANGED aqi_pm
    /\ UNCHANGED musicVars

calcAQIpm10 ==
    /\ aqi_out' \in AqiValues(BIN_PM10, aqi_pm)
    /\ aqi_fn' = "calcAQIpm10"
    /\ UNCHANGED aqi_pm
    /\ UNCHANGED musicVars

\* The two functions applied to every concentration of the input range.
InitAqi ==
    /\ InitMusic({1})
    /\ aqi_pm \in AqiInputs
    /\ aqi_fn = "none"
    /\ aqi_out = 0

NextAqi ==
    \/ calcAQIpm25
    \/ calcAQIpm10

SpecAqi == InitAqi /\ [][NextAqi]_vars

\* The table of the function that was called last.
CalledTable == IF aqi_fn = "calcAQIpm25" THEN BIN_PM25 ELSE BIN_PM10

AqiCalled == aqi_fn # "none"

\* C17: the concentration breakpoints increase from one segment to the next;
\* at each breakpoint BIN[k] the result is BIN_AQI[k] (so the end of one
\* segment and the start of the next agree), and over the table range the
\* result does not decrease when the concentration rises.
C17_PiecewiseLinearOverIncreasingBreakpoints ==
    AqiCalled =>
        LET B == CalledTable
        IN  /\ \A k \in Segments : Bin(B, k) <= Bin(B, k + 1)
            /\ \A k \in Breakpoints :
                   aqi_pm = Tenths(Bin(B, k)) => aqi_out = Bin(BIN_AQI, k)
            /\ (~aqi_pm.nan /\ aqi_pm.tenths >= 0
                    /\ aqi_pm.tenths < Bin(B, 8)) =>
                   \A next \in AqiValues(B, Tenths(aqi_pm.tenths + 1)) :
                       aqi_out <= next

\* C18: the result is an integer in 0 .. 500, and it is 0 for an input below
\* 0 or above the top breakpoint of the function's table.
C18_ResultInRangeAndZeroOutside ==
    AqiCalled =>
        /\ aqi_out \in 0 .. Bin(BIN_AQI, 8)
        /\ (~aqi_pm.nan /\ (aqi_pm.tenths < 0
                               \/ aqi_pm.tenths > Bin(CalledTable, 8))) =>
               aqi_out = 0

\* calcAQIpm25 was called with a concentration between 500.4, the top of its
\* table, and 604, the top of the other one, and returned 0.
C18_Witness ==
    /\ aqi_fn = "calcAQIpm25"
    /\ ~aqi_pm.nan
    /\ aqi_pm.tenths > Bin(BIN_PM25, 8)
    /\ aqi_pm.tenths < Bin(BIN_PM10, 8)
    /\ aqi_out = 0

====
